---- MODULE Spec2Model ----
(***************************************************************************)
(* A model of the Euclid proof checker: the tokenizer and the recursive    *)
(* descent parser of euclid/parser.py and the proof validation of          *)
(* euclid/euclid.py.  Source text is a sequence of one-character strings.  *)
(* Python values are records tagged by the field py.                       *)
(***************************************************************************)
EXTENDS Integers, Sequences, FiniteSets, TLC

VARIABLES
    entry,       \* the function under execution: "tokenize", "check_proof", "check_clause"
    code,        \* the source text handed in
    pc,          \* position of the execution
    pos,         \* tokenize: offset at which the next regex match starts
    lineno,      \* tokenize: lineno
    line_start,  \* tokenize: line_start
    yielded,     \* tokenize: the tokens yielded so far
    raised,      \* the exception that ended the run, or NoException
    tokens,      \* parse: the reversed list of remaining tokens
    statement,   \* match_proof: statement
    clauses,     \* match_proof: clauses
    ast,         \* check_proof: ast
    knowledge,   \* check_clause: knowledge
    clause,      \* check_clause: clause
    outcome      \* what the process did: running, exit (error()), accepted, crash

vars == <<entry, code, pc, pos, lineno, line_start, yielded, raised, tokens,
          statement, clauses, ast, knowledge, clause, outcome>>

-----------------------------------------------------------------------------
(* Characters *)

LowerCase == <<"a","b","c","d","e","f","g","h","i","j","k","l","m",
               "n","o","p","q","r","s","t","u","v","w","x","y","z">>
UpperCase == <<"A","B","C","D","E","F","G","H","I","J","K","L","M",
               "N","O","P","Q","R","S","T","U","V","W","X","Y","Z">>
Digits == <<"0","1","2","3","4","5","6","7","8","9">>

Range(s) == {s[i] : i \in 1..Len(s)}

\* v bound once and handed to Body
Let(v, Body(_)) == CHOOSE y \in {Body(x) : x \in {v}} : TRUE

DigitSet == Range(Digits)
LowerSet == Range(LowerCase)
LetterSet == Range(LowerCase) \cup Range(UpperCase)

IsDigit(c) == c \in DigitSet
IsAlpha(c) == c \in LetterSet
IsWord(c) == IsAlpha(c) \/ IsDigit(c) \/ c = "_"
IsSkip(c) == c \in {" ", ",", "\t"}

DigitVal(c) == (CHOOSE i \in 1..10 : Digits[i] = c) - 1

\* str.upper() on one character
upper_char(c) ==
    IF c \in LowerSet
    THEN UpperCase[CHOOSE i \in 1..26 : LowerCase[i] = c]
    ELSE c

\* str.upper()
upper(s) == [i \in 1..Len(s) |-> upper_char(s[i])]

-----------------------------------------------------------------------------
(* Python values *)

None == [py |-> "None"]
PyStr(s) == [py |-> "str", s |-> s]
PyList(items) == [py |-> "list", items |-> items]
Node(cls, items) == [py |-> "namedtuple", cls |-> cls, items |-> items]

RECURSIVE Pow10(_)
Pow10(k) == IF k = 0 THEN 1 ELSE 10 * Pow10(k - 1)

RECURSIVE DecimalPrefix(_, _)
\* the number the first n digits of ds denote
DecimalPrefix(ds, n) ==
    IF n = 0 THEN 0 ELSE 10 * DecimalPrefix(ds, n - 1) + DigitVal(ds[n])

\* the number a string of digits denotes
DecimalValue(ds) == DecimalPrefix(ds, Len(ds))

\* num / 10^exp with the trailing zeros of the fraction dropped
Normal(num, exp) ==
    LET drop == CHOOSE k \in 0..exp :
                    /\ num % Pow10(k) = 0
                    /\ \A j \in (k + 1)..exp : num % Pow10(j) # 0
    IN [num |-> num \div Pow10(drop), exp |-> exp - drop]

\* int(value)
PyInt(text) == [py |-> "int", num |-> DecimalValue(text), exp |-> 0]

\* float(value), for a text of the form digits "." digits
PyFloat(text) ==
    LET dot == CHOOSE i \in 1..Len(text) : text[i] = "."
        frac == SubSeq(text, dot + 1, Len(text))
    IN Let(Normal(DecimalValue(SubSeq(text, 1, dot - 1)) * Pow10(Len(frac))
                     + DecimalValue(frac), Len(frac)),
           LAMBDA n : [py |-> "float", num |-> n.num, exp |-> n.exp])

IsNumber(v) == v.py \in {"int", "float"}

-----------------------------------------------------------------------------
(* parser.py: Token and the tokenizer *)

Token(type, value, line, column) ==
    [py |-> "Token", type |-> type, value |-> value, line |-> line, column |-> column]

KW_PROVE == <<"P","R","O","V","E">>
KW_LET == <<"L","E","T">>
KW_WHERE == <<"W","H","E","R","E">>
KW_BY == <<"B","Y">>
KW_BE == <<"B","E">>
KW_IS == <<"I","S">>
KW_A == <<"A">>
KW_AN == <<"A","N">>
KW_DEFINITION == <<"D","E","F","I","N","I","T","I","O","N">>
KW_SUBSTITUTION == <<"S","U","B","S","T","I","T","U","T","I","O","N">>
KW_IF == <<"I","F">>
KW_THEN == <<"T","H","E","N">>
KW_THEREFORE == <<"T","H","E","R","E","F","O","R","E">>

\* the kind named by each keyword text (kind = value.upper())
KeywordKinds ==
    {<<KW_PROVE, "PROVE">>, <<KW_LET, "LET">>, <<KW_WHERE, "WHERE">>,
     <<KW_BY, "BY">>, <<KW_BE, "BE">>, <<KW_IS, "IS">>, <<KW_A, "A">>,
     <<KW_AN, "AN">>, <<KW_DEFINITION, "DEFINITION">>,
     <<KW_SUBSTITUTION, "SUBSTITUTION">>, <<KW_IF, "IF">>,
     <<KW_THEN, "THEN">>, <<KW_THEREFORE, "THEREFORE">>}

tokenize_keywords == {k[1] : k \in KeywordKinds}

KindOfKeyword(text) == (CHOOSE k \in KeywordKinds : k[1] = text)[2]

InClass(c, cls) ==
    CASE cls = "digit" -> IsDigit(c)
      [] cls = "word" -> IsWord(c)
      [] OTHER -> IsSkip(c)

\* the offset after the longest run of characters of class cls starting at offset p
\* (cls: "digit", "word", "skip"): a greedy \d*, [A-Za-z0-9_]* or [ ,\t]*
RunEnd(s, p, cls) ==
    CHOOSE e \in p..Len(s) :
        /\ \A i \in (p + 1)..e : InClass(s[i], cls)
        /\ e = Len(s) \/ ~InClass(s[e + 1], cls)

\* NUMBER: \d+(\.\d*)?
NumberEnd(s, p) ==
    Let(RunEnd(s, p, "digit"),
        LAMBDA e : IF e < Len(s) /\ s[e + 1] = "." THEN RunEnd(s, e + 1, "digit") ELSE e)

\* one match of _tokenize_regex at offset p (p < Len(s)): the first alternative
\* of _tokenize_spec that matches there
regex_match(s, p) ==
    LET c == s[p + 1] IN
    CASE IsDigit(c) -> [kind |-> "NUMBER", start |-> p, end |-> NumberEnd(s, p)]
      [] c = "=" -> [kind |-> "EQ", start |-> p, end |-> p + 1]
      [] c = ":" -> [kind |-> "COLON", start |-> p, end |-> p + 1]
      [] c = "(" -> [kind |-> "LPAREN", start |-> p, end |-> p + 1]
      [] c = ")" -> [kind |-> "RPAREN", start |-> p, end |-> p + 1]
      [] c = "." -> [kind |-> "DOT", start |-> p, end |-> p + 1]
      [] IsAlpha(c) -> [kind |-> "SYMBOL", start |-> p, end |-> RunEnd(s, p + 1, "word")]
      [] c = "\n" -> [kind |-> "NEWLINE", start |-> p, end |-> p + 1]
      [] IsSkip(c) -> [kind |-> "SKIP", start |-> p, end |-> RunEnd(s, p, "skip")]
      [] OTHER -> [kind |-> "MISMATCH", start |-> p, end |-> p + 1]

NoException == [exc |-> "None", msg |-> "", got |-> "", expected |-> "",
                text |-> <<>>, line |-> 0, column |-> 0]

\* SyntaxError(f"{value!r} unexpected on line {lineno}, col {column}")
LexError(value, line, column) ==
    [exc |-> "SyntaxError", msg |-> "unexpected", got |-> "", expected |-> "",
     text |-> value, line |-> line, column |-> column]

\* column_of with the offset in the whole text, not in the line
column_of_text(mo, lstart) == mo.start

\* the column tokenize computes for a match
column_of(mo, lstart) == mo.start - lstart

\* symbol_kind with the keyword test on the text as written (no upper())
symbol_kind_as_written(value) ==
    IF value \in tokenize_keywords
    THEN Let(KindOfKeyword(value),
             LAMBDA kind : IF kind = "IS" THEN "BE" ELSE IF kind = "AN" THEN "A" ELSE kind)
    ELSE "SYMBOL"

\* the kind of a SYMBOL match after the keyword test
symbol_kind(value) ==
    IF upper(value) \in tokenize_keywords
    THEN Let(KindOfKeyword(upper(value)),
             LAMBDA kind : IF kind = "IS" THEN "BE" ELSE IF kind = "AN" THEN "A" ELSE kind)
    ELSE "SYMBOL"

\* number_value with the fraction cut off: int() of the digits before the "."
number_value_truncated(value) ==
    PyInt(SubSeq(value, 1, RunEnd(value, 0, "digit")))

\* the value of a NUMBER match
number_value(value) ==
    IF "." \in Range(value) THEN PyFloat(value) ELSE PyInt(value)

\* the body of the loop of tokenize for the match mo, over the generator state
\* t = [pos, lineno, line_start, yielded, raised]
tokenize_body(s, t, mo) ==
    LET kind == mo.kind
        value == SubSeq(s, mo.start + 1, mo.end)
        column == column_of(mo, t.line_start)
    IN CASE kind = "NUMBER" ->
              [t EXCEPT !.pos = mo.end,
                        !.yielded = Append(@, Token("NUMBER", number_value(value),
                                                    t.lineno, column))]
         [] kind = "SYMBOL" ->
              [t EXCEPT !.pos = mo.end,
                        !.yielded = Append(@, Token(symbol_kind(value), PyStr(value),
                                                    t.lineno, column))]
         [] kind = "NEWLINE" ->
              [t EXCEPT !.pos = mo.end, !.line_start = mo.end, !.lineno = @ + 1]
         [] kind = "SKIP" ->
              [t EXCEPT !.pos = mo.end]
         [] kind = "MISMATCH" ->
              [t EXCEPT !.pos = mo.end, !.raised = LexError(value, t.lineno, column)]
         [] OTHER ->
              [t EXCEPT !.pos = mo.end,
                        !.yielded = Append(@, Token(kind, PyStr(value), t.lineno, column))]

\* one iteration of "for mo in _tokenize_regex.finditer(code)"
tokenize_iter(s, t) == Let(regex_match(s, t.pos), LAMBDA mo : tokenize_body(s, t, mo))

tokenize_start ==
    [pos |-> 0, lineno |-> 1, line_start |-> 0, yielded |-> <<>>, raised |-> NoException]

RECURSIVE tokenize_drain(_, _)
tokenize_drain(s, t) ==
    IF t.raised # NoException \/ t.pos >= Len(s) THEN t
    ELSE Let(tokenize_iter(s, t), LAMBDA u : tokenize_drain(s, u))

\* list(tokenize(code)): the generator run to its end
tokenize(s) == tokenize_drain(s, tokenize_start)

-----------------------------------------------------------------------------
(* parser.py: the recursive descent parser.  Every match_ function takes   *)
(* the reversed token list (the next token is the last element) and gives  *)
(* back [ok, val, tokens, err]: the node built and the list as the call    *)
(* left it, or the SyntaxError raised.                                     *)

Ok(val, toks) == [ok |-> TRUE, val |-> val, tokens |-> toks, err |-> NoException]
Fail(err, toks) == [ok |-> FALSE, val |-> None, tokens |-> toks, err |-> err]

PrematureEnd ==
    [exc |-> "SyntaxError", msg |-> "premature end of input", got |-> "",
     expected |-> "", text |-> <<>>, line |-> 0, column |-> 0]

\* SyntaxError("got {0.type}, expected {1}, line {0.line} col {0.column}")
Unexpected(tok, expected_type) ==
    [exc |-> "SyntaxError", msg |-> "got, expected", got |-> tok.type,
     expected |-> expected_type, text |-> <<>>, line |-> tok.line, column |-> tok.column]

Reverse(s) == [i \in 1..Len(s) |-> s[Len(s) + 1 - i]]

\* tokens[-1]
Top(toks) == toks[Len(toks)]

\* tokens.pop(): the list without its last element
Pop(toks) == SubSeq(toks, 1, Len(toks) - 1)

check_token(toks, expected_type) ==
    toks # <<>> /\ Top(toks).type = expected_type

check_token_and_pop(toks, expected_type) ==
    IF toks = <<>> THEN Fail(PrematureEnd, toks)
    ELSE IF Top(toks).type # expected_type
    THEN Fail(Unexpected(Top(toks), expected_type), toks)
    ELSE Ok(Top(toks), Pop(toks))

\* r, and when it raised nothing, what Rest makes of it: the statements after a call
Then(r, Rest(_)) == CHOOSE y \in {IF x.ok THEN Rest(x) ELSE x : x \in {r}} : TRUE

RECURSIVE symbol_run(_, _)
\* while check_token(tokens, "SYMBOL"): compound_symbol.append(tokens.pop())
symbol_run(toks, acc) ==
    IF check_token(toks, "SYMBOL")
    THEN Let(Pop(toks), LAMBDA rest : symbol_run(rest, Append(acc, Top(toks))))
    ELSE Ok(Node("CompoundSymbolNode", <<PyList(acc)>>), toks)

match_compound_symbol(toks) ==
    Then(check_token_and_pop(toks, "SYMBOL"),
         LAMBDA first : symbol_run(first.tokens, <<first.val>>))

RECURSIVE match_term(_)
match_term(toks) ==
    IF check_token(toks, "SYMBOL") THEN Ok(Node("SymbolNode", <<Top(toks)>>), Pop(toks))
    ELSE IF check_token(toks, "NUMBER") THEN
        Let(Pop(toks), LAMBDA t1 :
        IF check_token(t1, "SYMBOL")
        THEN Ok(Node("OpNode", <<PyStr("*"), Node("NumberNode", <<Top(toks)>>),
                                 Node("SymbolNode", <<Top(t1)>>)>>),
                Pop(t1))
        ELSE IF check_token(t1, "LPAREN") THEN
            Then(match_term(Pop(t1)), LAMBDA right :
            Then(check_token_and_pop(right.tokens, "RPAREN"), LAMBDA rp :
            Ok(Node("OpNode", <<PyStr("*"), Node("NumberNode", <<Top(toks)>>), right.val>>),
               rp.tokens)))
        ELSE Ok(Node("NumberNode", <<Top(toks)>>), t1))
    ELSE
        Then(check_token_and_pop(toks, "LPAREN"), LAMBDA lp :
        Then(match_term(lp.tokens), LAMBDA term :
        Then(check_token_and_pop(term.tokens, "RPAREN"), LAMBDA rp :
        Ok(term.val, rp.tokens))))

RECURSIVE match_formula(_)
match_formula(toks) ==
    IF check_token(toks, "IF") THEN
        Then(match_formula(Pop(toks)), LAMBDA hypothesis :
        Then(check_token_and_pop(hypothesis.tokens, "THEN"), LAMBDA then :
        Then(match_formula(then.tokens), LAMBDA consequent :
        Ok(Node("IfNode", <<hypothesis.val, consequent.val>>), consequent.tokens))))
    ELSE
        Then(match_term(toks), LAMBDA term :
        IF check_token(term.tokens, "EQ") THEN
            Then(match_term(Pop(term.tokens)), LAMBDA right :
            Ok(Node("OpNode", <<PyStr("="), term.val, right.val>>), right.tokens))
        ELSE
            Then(check_token_and_pop(term.tokens, "BE"), LAMBDA be :
            Then(check_token_and_pop(be.tokens, "A"), LAMBDA a :
            Then(match_compound_symbol(a.tokens), LAMBDA compound_symbol :
            Ok(Node("IsANode", <<term.val, compound_symbol.val>>),
               compound_symbol.tokens)))))

match_where_clause(toks) ==
    Then(check_token_and_pop(toks, "WHERE"), LAMBDA where :
    Then(check_token_and_pop(where.tokens, "SYMBOL"), LAMBDA symbol :
    Then(check_token_and_pop(symbol.tokens, "BE"), LAMBDA be :
    Then(check_token_and_pop(be.tokens, "A"), LAMBDA a :
    Then(match_compound_symbol(a.tokens), LAMBDA compound_symbol :
    Ok(Node("WhereNode", <<symbol.val, compound_symbol.val>>), compound_symbol.tokens))))))

match_justification(toks) ==
    IF check_token(toks, "DEFINITION") THEN Ok(Top(toks), Pop(toks))
    ELSE check_token_and_pop(toks, "SUBSTITUTION")

match_formula_clause(toks) ==
    Then(IF check_token(toks, "BY") THEN match_justification(Pop(toks)) ELSE Ok(None, toks),
         LAMBDA justification :
    Then(match_formula(justification.tokens), LAMBDA formula :
    Then(IF check_token(formula.tokens, "WHERE") THEN match_where_clause(formula.tokens)
         ELSE Ok(None, formula.tokens),
         LAMBDA where :
    Then(check_token_and_pop(where.tokens, "DOT"), LAMBDA dot :
    Ok(Node("FormulaClauseNode", <<justification.val, formula.val, where.val>>),
       dot.tokens)))))

match_therefore_clause(toks) ==
    Then(check_token_and_pop(toks, "THEREFORE"), LAMBDA therefore :
    Then(match_formula(therefore.tokens), LAMBDA formula :
    Then(check_token_and_pop(formula.tokens, "DOT"), LAMBDA dot :
    Ok(Node("ThereforeNode", <<formula.val>>), dot.tokens))))

match_let_clause(toks) ==
    Then(check_token_and_pop(toks, "LET"), LAMBDA let :
    Then(check_token_and_pop(let.tokens, "SYMBOL"), LAMBDA symbol :
    IF check_token(symbol.tokens, "EQ") THEN
        Then(match_term(Pop(symbol.tokens)), LAMBDA term :
        Then(check_token_and_pop(term.tokens, "DOT"), LAMBDA dot :
        Ok(Node("LetNode", <<symbol.val, term.val>>), dot.tokens)))
    ELSE
        Then(check_token_and_pop(symbol.tokens, "BE"), LAMBDA be :
        Then(check_token_and_pop(be.tokens, "A"), LAMBDA a :
        Then(match_compound_symbol(a.tokens), LAMBDA compound_symbol :
        Then(check_token_and_pop(compound_symbol.tokens, "DOT"), LAMBDA dot :
        Ok(Node("LetNode",
                <<symbol.val, Node("CompoundSymbolNode", <<compound_symbol.val>>)>>),
           dot.tokens)))))))

\* match_clause with an empty clause let through: a "." is left on the list
match_clause_empty(toks) ==
    IF check_token(toks, "LET") THEN match_let_clause(toks)
    ELSE IF check_token(toks, "THEREFORE") THEN match_therefore_clause(toks)
    ELSE IF check_token(toks, "DOT") THEN Ok(None, toks)
    ELSE match_formula_clause(toks)

match_clause(toks) ==
    IF check_token(toks, "LET") THEN match_let_clause(toks)
    ELSE IF check_token(toks, "THEREFORE") THEN match_therefore_clause(toks)
    ELSE match_formula_clause(toks)

match_proof_statement(toks) ==
    Then(check_token_and_pop(toks, "PROVE"), LAMBDA prove :
    Then(check_token_and_pop(prove.tokens, "COLON"), LAMBDA colon :
    Then(match_formula(colon.tokens), LAMBDA formula :
    Then(check_token_and_pop(formula.tokens, "DOT"), LAMBDA dot :
    Ok(formula.val, dot.tokens)))))

ProofNode(stmt, cls) == Node("ProofNode", <<stmt, PyList(cls)>>)

\* the field names of each namedtuple class, in order
Fields(cls) ==
    CASE cls = "ProofNode" -> <<"statement", "clauses">>
      [] cls = "LetNode" -> <<"symbol", "formula">>
      [] cls = "FormulaClauseNode" -> <<"justification", "formula", "where">>
      [] cls = "ThereforeNode" -> <<"formula">>
      [] cls = "WhereNode" -> <<"symbol", "formula">>
      [] cls = "IfNode" -> <<"hypothesis", "consequent">>
      [] cls = "OpNode" -> <<"op", "left", "right">>
      [] cls = "IsANode" -> <<"term", "definition">>
      [] cls = "CompoundSymbolNode" -> <<"components">>
      [] cls = "NumberNode" -> <<"number">>
      [] cls = "SymbolNode" -> <<"symbol">>
      [] cls = "Knowledge" -> <<"expressions">>
      [] cls = "Expression" -> <<"properties", "equivalent">>
      [] OTHER -> <<>>

AttributeError(name) ==
    [exc |-> "AttributeError", msg |-> name, got |-> "", expected |-> "",
     text |-> <<>>, line |-> 0, column |-> 0]

\* obj.name: the field of a namedtuple (or of a Token), AttributeError otherwise
GetAttr(obj, name) ==
    IF obj.py = "namedtuple" /\ name \in Range(Fields(obj.cls))
    THEN Ok(obj.items[CHOOSE i \in 1..Len(obj.items) : Fields(obj.cls)[i] = name], <<>>)
    ELSE IF obj.py = "Token" /\ name \in {"type", "value", "line", "column"}
    THEN Ok(obj[name], <<>>)
    ELSE Fail(AttributeError(name), <<>>)

\* the marker line() gives where the code raises RuntimeError("unknown node type")
RuntimeError == -1

RECURSIVE line(_)
\* line(node): the line number of the node
line(node) ==
    CASE node.py # "namedtuple" -> RuntimeError
      [] node.cls = "LetNode" -> line(node.items[1])
      [] node.cls = "FormulaClauseNode" -> line(node.items[2])
      [] node.cls = "ThereforeNode" -> line(node.items[1])
      [] node.cls = "WhereNode" -> line(node.items[1])
      [] node.cls = "IfNode" -> line(node.items[1])
      [] node.cls = "OpNode" -> line(node.items[2])
      [] node.cls = "IsANode" -> line(node.items[1])
      [] node.cls = "CompoundSymbolNode" -> line(node.items[1].items[1])
      [] node.cls = "NumberNode" -> node.items[1].line
      [] node.cls = "SymbolNode" -> node.items[1].line
      [] OTHER -> RuntimeError

-----------------------------------------------------------------------------
(* euclid.py *)

RECURSIVE PyEq(_, _)
\* a == b as Python evaluates it: named tuples compare as plain tuples (the class
\* is not compared), Token.__eq__ compares type and value only, 1 == 1.0
PyEq(a, b) ==
    CASE a.py = "namedtuple" ->
            /\ b.py = "namedtuple"
            /\ Len(a.items) = Len(b.items)
            /\ \A i \in 1..Len(a.items) : PyEq(a.items[i], b.items[i])
      [] a.py = "list" ->
            /\ b.py = "list"
            /\ Len(a.items) = Len(b.items)
            /\ \A i \in 1..Len(a.items) : PyEq(a.items[i], b.items[i])
      [] a.py = "Token" -> b.py = "Token" /\ a.type = b.type /\ PyEq(a.value, b.value)
      [] a.py = "str" -> b.py = "str" /\ a.s = b.s
      [] IsNumber(a) -> IsNumber(b) /\ a.num = b.num /\ a.exp = b.exp
      [] OTHER -> b.py = "None"

formula_equals(left, right) == PyEq(left, right)

\* predicates.py: is_even and is_odd, on the value of a number
is_even(val) == val.exp = 0 /\ val.num % 2 = 0

is_odd(val) == val.exp = 0 /\ val.num % 2 = 1

\* Knowledge([])
EmptyKnowledge == Node("Knowledge", <<PyList(<<>>)>>)

follows(kn, formula, justification) == FALSE

update_knowledge(kn, cl) == kn

Running == [status |-> "running", exit |-> 0, prefix |-> "", msg |-> "", line |-> 0]

\* error(msg, prefix): the message on stderr and sys.exit(2)
error(msg, prefix) ==
    [status |-> "exit", exit |-> 2, prefix |-> prefix, msg |-> msg, line |-> 0]

\* error(f"{clause} does not follow, line {parser.line(clause)})")
error_at(msg, ln) ==
    [status |-> "exit", exit |-> 2, prefix |-> "Error", msg |-> msg, line |-> ln]

\* an exception nothing catches: the traceback and exit status 1
Uncaught(e) ==
    [status |-> "crash", exit |-> 1, prefix |-> e.exc, msg |-> e.msg, line |-> 0]

\* print("No errors were detected in the proof.") and the return
Printed ==
    [status |-> "printed", exit |-> 0, prefix |-> "",
     msg |-> "No errors were detected in the proof.", line |-> 0]

MsgEmpty == "the body of the proof is empty"
MsgHypothesis ==
    "the first statement of the proof does not match the hypothesis of the if statement to be proven"
MsgConsequent ==
    "the final statement of the proof does not match the consequent to be proven"
MsgStatement ==
    "the final statement of the proof does not match the statement to be proven"
MsgNotFollow == "does not follow"
MsgUnknownNode == "unknown node type"

\* check_clause(knowledge, clause): [outcome, knowledge] after the call
check_clause(kn, cl) ==
    IF cl.cls = "FormulaClauseNode"
    THEN IF ~follows(kn, cl.items[2], cl.items[1])
         THEN [outcome |-> error_at(MsgNotFollow, line(cl)), knowledge |-> kn]
         ELSE [outcome |-> Running, knowledge |-> update_knowledge(kn, cl)]
    ELSE [outcome |-> error(MsgUnknownNode, "Internal error"), knowledge |-> kn]

RECURSIVE check_clauses(_, _, _)
\* for clause in <list>: check_clause(knowledge, clause), then the print
check_clauses(kn, cls, i) ==
    IF i > Len(cls) THEN Printed
    ELSE Let(check_clause(kn, cls[i]),
             LAMBDA r : IF r.outcome.status # "running" THEN r.outcome
                        ELSE check_clauses(r.knowledge, cls, i + 1))

\* check_proof, lines 27-45: the outcome of the boundary check on the parsed proof
boundary_check(tree) ==
    LET stmt == tree.items[1]
        cls == tree.items[2].items
        first == GetAttr(cls[1], "formula").val
        last == GetAttr(cls[Len(cls)], "formula").val
    IN IF stmt.cls = "IfNode"
       THEN IF ~formula_equals(stmt.items[1], first)
            THEN error(MsgHypothesis, "Error")
            ELSE Let(GetAttr(tree, "statements"), LAMBDA statements :
                 IF ~statements.ok THEN Uncaught(statements.err)
                 ELSE IF ~formula_equals(GetAttr(statements.val, "consequent").val, last)
                 THEN error(MsgConsequent, "Error")
                 ELSE Running)
       ELSE IF ~formula_equals(stmt, first)
            THEN error(MsgStatement, "Error")
            ELSE Running

\* check_proof, lines 47-51: the clause walk over proof.clauses and the print
clause_walk(proof) ==
    Let(GetAttr(proof, "clauses"), LAMBDA cls :
        IF ~cls.ok THEN Uncaught(cls.err)
        ELSE check_clauses(EmptyKnowledge, cls.val.items, 1))

-----------------------------------------------------------------------------
(* Inputs *)

\* the proof statements
Goal_x_eq_y == <<"P","R","O","V","E",":"," ","x"," ","="," ","y",".">>
Goal_x_eq_1 == <<"P","R","O","V","E",":"," ","x"," ","="," ","1",".">>
Goal_x_eq_1_spaced == <<"P","R","O","V","E",":"," ","x"," ","="," ","1"," ",".">>
Goal_n_is_even ==
    <<"P","R","O","V","E",":"," ","n"," ","i","s"," ","a","n"," ","e","v","e","n",".">>
Goal_if_xy ==
    <<"P","R","O","V","E",":"," ","I","F"," ","x"," ","="," ","y"," ","T","H","E","N"," ","x",
      " ","="," ","x",".">>
Goal_if_x1 ==
    <<"P","R","O","V","E",":"," ","I","F"," ","x"," ","="," ","1"," ","T","H","E","N"," ","x",
      " ","="," ","x",".">>

Goals ==
    {Goal_x_eq_y, Goal_x_eq_1, Goal_x_eq_1_spaced, Goal_n_is_even, Goal_if_xy, Goal_if_x1}

\* the clauses proofs are put together from
Cl_x_eq_y == <<" ","x"," ","="," ","y",".">>
Cl_y_eq_1 == <<" ","y"," ","="," ","1",".">>
Cl_x_eq_1 == <<" ","x"," ","="," ","1",".">>
Cl_x_eq_1_0 == <<" ","x"," ","="," ","1",".","0"," ",".">>
Cl_therefore == <<" ","T","H","E","R","E","F","O","R","E"," ","x"," ","="," ","x",".">>
Cl_x_eq_x == <<" ","x"," ","="," ","x",".">>
Cl_let_eq == <<" ","L","e","t"," ","x"," ","="," ","y",".">>
Cl_let_cat == <<" ","L","e","t"," ","n"," ","b","e"," ","a","n"," ","e","v","e","n",".">>
Cl_def_2_even ==
    <<" ","B","y"," ","d","e","f","i","n","i","t","i","o","n"," ","2"," ","i","s"," ","a"," ",
      "e","v","e","n",".">>
Cl_def_3_even ==
    <<" ","B","y"," ","d","e","f","i","n","i","t","i","o","n"," ","3"," ","i","s"," ","a"," ",
      "e","v","e","n",".">>
Cl_def_n_even ==
    <<" ","B","y"," ","d","e","f","i","n","i","t","i","o","n"," ","n"," ","i","s"," ","a"," ",
      "e","v","e","n",".">>
Cl_where ==
    <<" ","n"," ","i","s"," ","a","n"," ","e","v","e","n"," ","w","h","e","r","e"," ","n"," ",
      "i","s"," ","a","n"," ","i","n","t","e","g","e","r",".">>

ClauseTexts ==
    {Cl_x_eq_y, Cl_y_eq_1, Cl_x_eq_1, Cl_x_eq_1_0,
     Cl_therefore, Cl_x_eq_x, Cl_let_eq, Cl_let_cat,
     Cl_def_2_even, Cl_def_3_even, Cl_def_n_even, Cl_where}

\* the phrases token sequences are put together from
Ph_x == <<"x">>
Ph_eq_1 == <<"="," ","1">>
Ph_dot == <<".">>
Ph_let_x == <<"L","E","T"," ","x">>
Ph_therefore == <<"T","H","E","R","E","F","O","R","E">>
Ph_lparen == <<"(">>
Ph_rparen == <<")">>
Ph_if_then == <<"I","F"," ","x"," ","="," ","x"," ","T","H","E","N">>

Phrases ==
    {Ph_x, Ph_eq_1, Ph_dot, Ph_let_x,
     Ph_therefore, Ph_lparen, Ph_rparen, Ph_if_then}

\* the start of a proof statement
ProveColon == <<"P","R","O","V","E",":">>

\* the inputs of test/test_parser.py
Test_short_sentence ==
    <<"L","e","t"," ","x"," ","b","e"," ","a","n"," ","i","n","t","e","g","e","r",".">>
Test_keywords ==
    <<"p","r","o","v","e"," ","l","e","t"," ","w","h","e","r","e"," ","b","y"," ","b","e"," ",
      "i","s"," ","a"," ","a","n">>
Test_numbers == <<"0"," ","1"," ","6","9","7"," ","2","4",".","8","3","7">>

TestTexts == {Test_short_sentence, Test_keywords, Test_numbers}

\* Bounds
MaxLen == 3
MaxClauses == 2
MaxPhrases == 3

\* the characters the bounded texts are made of
Alphabet == {"a", "N", "I", "s", "1", "0", ".", " ", "\n", "_", "#"}

RECURSIVE Strings(_, _)
\* the sequences over S of length at most n
Strings(S, n) ==
    IF n = 0 THEN {<<>>}
    ELSE LET shorter == Strings(S, n - 1)
         IN shorter \cup {Append(t, c) : t \in {u \in shorter : Len(u) = n - 1}, c \in S}

RECURSIVE Concat(_)
\* the texts of a sequence of texts, one after the other
Concat(ts) == IF ts = <<>> THEN <<>> ELSE Head(ts) \o Concat(Tail(ts))

RECURSIVE Join(_)
\* the phrases of a sequence, each after a blank
Join(ws) == IF ws = <<>> THEN <<>> ELSE <<" ">> \o Head(ws) \o Join(Tail(ws))

TokenizeTexts == Strings(Alphabet, MaxLen) \cup TestTexts

ProofTexts == {g \o Concat(b) : g \in Goals, b \in Strings(ClauseTexts, MaxClauses)}

\* a proof statement begun, or a proof statement and a clause, and phrases after it
PhraseTexts ==
    {h \o Join(ws) : h \in {ProveColon, Goal_n_is_even \o Cl_let_cat},
                     ws \in Strings(Phrases, MaxPhrases)}

\* Knowledge([Expression(["even"], [n])])
KnowledgeOfN ==
    Node("Knowledge",
         <<PyList(<<Node("Expression",
                         <<PyList(<<PyStr(<<"e","v","e","n">>)>>),
                           PyList(<<Node("SymbolNode",
                                         <<Token("SYMBOL", PyStr(<<"n">>), 1, 0)>>)>>)>>)>>)>>)

Knowledges == {EmptyKnowledge, KnowledgeOfN}

-----------------------------------------------------------------------------
(* The state machine *)

InitOf(e, texts) ==
    /\ entry = e
    /\ code \in texts
    /\ pc = e
    /\ pos = 0
    /\ lineno = 1
    /\ line_start = 0
    /\ yielded = <<>>
    /\ raised = NoException
    /\ tokens = <<>>
    /\ statement = None
    /\ clauses = <<>>
    /\ ast = None
    /\ knowledge = EmptyKnowledge
    /\ clause = None
    /\ outcome = Running

\* tokenize: one iteration of "for mo in _tokenize_regex.finditer(code)"
TokenizeStep ==
    /\ pc = "tokenize"
    /\ pos < Len(code)
    /\ \E t \in {tokenize_iter(code, [pos |-> pos, lineno |-> lineno,
                                         line_start |-> line_start, yielded |-> yielded,
                                         raised |-> raised])} :
          /\ pos' = t.pos
          /\ lineno' = t.lineno
          /\ line_start' = t.line_start
          /\ yielded' = t.yielded
          /\ raised' = t.raised
          /\ pc' = IF t.raised # NoException THEN "raised" ELSE "tokenize"
    /\ UNCHANGED <<entry, code, tokens, statement, clauses, ast, knowledge, clause, outcome>>

\* tokenize: finditer has no further match, the generator is exhausted
TokenizeEnd ==
    /\ pc = "tokenize"
    /\ pos >= Len(code)
    /\ pc' = "exhausted"
    /\ UNCHANGED <<entry, code, pos, lineno, line_start, yielded, raised, tokens,
                   statement, clauses, ast, knowledge, clause, outcome>>

\* parse, lines 44-45: tokens = list(tokenize(code)); tokens.reverse()
ParseTokenize ==
    /\ pc \in {"parse", "check_proof", "check_clause"}
    /\ \E t \in {tokenize(code)} :
          /\ pos' = t.pos
          /\ lineno' = t.lineno
          /\ line_start' = t.line_start
          /\ yielded' = t.yielded
          /\ raised' = t.raised
          /\ tokens' = IF t.raised # NoException THEN <<>> ELSE Reverse(t.yielded)
          /\ pc' = IF t.raised # NoException THEN "raised" ELSE "match_proof"
    /\ UNCHANGED <<entry, code, statement, clauses, ast, knowledge, clause, outcome>>

\* match_proof, line 50: statement = match_proof_statement(tokens)
MatchProofStatement ==
    /\ pc = "match_proof"
    /\ \E r \in {match_proof_statement(tokens)} :
          /\ tokens' = r.tokens
          /\ statement' = r.val
          /\ raised' = r.err
          /\ pc' = IF r.ok THEN "match_clauses" ELSE "raised"
    /\ UNCHANGED <<entry, code, pos, lineno, line_start, yielded, clauses, ast,
                   knowledge, clause, outcome>>

\* match_proof, lines 52-53: while tokens: clauses.append(match_clause(tokens))
MatchClause ==
    /\ pc = "match_clauses"
    /\ tokens # <<>>
    /\ \E r \in {match_clause(tokens)} :
          /\ tokens' = r.tokens
          /\ clauses' = IF r.ok THEN Append(clauses, r.val) ELSE clauses
          /\ raised' = r.err
          /\ pc' = IF r.ok THEN "match_clauses" ELSE "raised"
    /\ UNCHANGED <<entry, code, pos, lineno, line_start, yielded, statement, ast,
                   knowledge, clause, outcome>>

\* match_proof, line 54: return ProofNode(statement, clauses)
MatchProofReturn ==
    /\ pc = "match_clauses"
    /\ tokens = <<>>
    /\ ast' = ProofNode(statement, clauses)
    /\ pc' = IF entry = "check_proof" THEN "check_empty"
             ELSE IF entry = "check_clause" THEN "call_check_clause"
             ELSE "returned"
    /\ UNCHANGED <<entry, code, pos, lineno, line_start, yielded, raised, tokens,
                   statement, clauses, knowledge, clause, outcome>>

\* check_proof, lines 21-22: except SyntaxError as e: error(str(e))
ExceptSyntaxError ==
    /\ entry = "check_proof"
    /\ pc = "raised"
    /\ outcome' = error(raised.msg, "Error")
    /\ pc' = "done"
    /\ UNCHANGED <<entry, code, pos, lineno, line_start, yielded, raised, tokens,
                   statement, clauses, ast, knowledge, clause>>

\* check_proof, lines 24-25: if not ast.clauses: error(...)
CheckEmpty ==
    /\ pc = "check_empty"
    /\ IF GetAttr(ast, "clauses").val.items = <<>>
       THEN outcome' = error(MsgEmpty, "Error") /\ pc' = "done"
       ELSE outcome' = outcome /\ pc' = "boundary"
    /\ UNCHANGED <<entry, code, pos, lineno, line_start, yielded, raised, tokens,
                   statement, clauses, ast, knowledge, clause>>

\* check_proof, lines 27-45: the first and the last clause against the statement
BoundaryCheck ==
    /\ pc = "boundary"
    /\ outcome' = boundary_check(ast)
    /\ pc' = IF outcome'.status = "running" THEN "walk" ELSE "done"
    /\ UNCHANGED <<entry, code, pos, lineno, line_start, yielded, raised, tokens,
                   statement, clauses, ast, knowledge, clause>>

\* check_proof, lines 47-51: knowledge = Knowledge([]), the loop over proof.clauses
\* (proof is the source text) and the print
ClauseWalk ==
    /\ pc = "walk"
    /\ knowledge' = EmptyKnowledge
    /\ outcome' = clause_walk(PyStr(code))
    /\ pc' = "done"
    /\ UNCHANGED <<entry, code, pos, lineno, line_start, yielded, raised, tokens,
                   statement, clauses, ast, clause>>

\* a call check_clause(knowledge, clause) on a clause of a parsed proof
CallCheckClause ==
    /\ pc = "call_check_clause"
    /\ \E i \in 1..Len(clauses), kn \in Knowledges :
          \E r \in {check_clause(kn, clauses[i])} :
             /\ clause' = clauses[i]
             /\ knowledge' = r.knowledge
             /\ outcome' = r.outcome
    /\ pc' = "done"
    /\ UNCHANGED <<entry, code, pos, lineno, line_start, yielded, raised, tokens,
                   statement, clauses, ast>>

\* tokenize(code), consumed token by token
InitTokenize == InitOf("tokenize", TokenizeTexts)
NextTokenize == TokenizeStep \/ TokenizeEnd
SpecTokenize == InitTokenize /\ [][NextTokenize]_vars

\* parser.parse(code)
InitParse == InitOf("parse", PhraseTexts)
NextParse == ParseTokenize \/ MatchProofStatement \/ MatchClause \/ MatchProofReturn
SpecParse == InitParse /\ [][NextParse]_vars

\* check_clause on the clauses of parsed proofs
InitClause == InitOf("check_clause", ProofTexts)
NextClause ==
    \/ ParseTokenize
    \/ MatchProofStatement
    \/ MatchClause
    \/ MatchProofReturn
    \/ CallCheckClause
SpecClause == InitClause /\ [][NextClause]_vars

\* check_proof(proof), as run.py calls it
Init == InitOf("check_proof", ProofTexts)
Next ==
    \/ ParseTokenize
    \/ MatchProofStatement
    \/ MatchClause
    \/ MatchProofReturn
    \/ ExceptSyntaxError
    \/ CheckEmpty
    \/ BoundaryCheck
    \/ ClauseWalk
Spec == Init /\ [][Next]_vars

-----------------------------------------------------------------------------
(* The tokenizer, checked under SpecTokenize *)

IsWhitespace(c) == c \in {" ", "\t", "\n"}
IsPunctuation(c) == c \in {"=", ":", "(", ")", "."}

\* a letter of s before offset i begins a run of word characters reaching i
InIdentifier(s, i) ==
    \E j \in 1..(i - 1) : IsAlpha(s[j]) /\ \A k \in j..(i - 1) : IsWord(s[k])

\* an identifier of s begins at index i
StartsIdentifier(s, i) == IsAlpha(s[i]) /\ ~InIdentifier(s, i)

\* the identifier of s that begins at index i
IdentifierAt(s, i) ==
    SubSeq(s, i, CHOOSE e \in i..Len(s) :
                    /\ \A k \in i..e : IsWord(s[k])
                    /\ e = Len(s) \/ ~IsWord(s[e + 1]))

\* the character of s at index i matches none of the token patterns
IsStray(s, i) ==
    \/ ~(IsWord(s[i]) \/ IsPunctuation(s[i]) \/ IsWhitespace(s[i]) \/ s[i] = ",")
    \/ s[i] = "_" /\ ~InIdentifier(s, i)

\* the k-th smallest element of a set of numbers
Nth(S, k) == CHOOSE i \in S : Cardinality({j \in S : j <= i}) = k

SameLetter(c, d) ==
    c = d \/ \E i \in 1..26 : {c, d} = {LowerCase[i], UpperCase[i]}

SameIgnoringCase(a, b) ==
    Len(a) = Len(b) /\ \A i \in 1..Len(a) : SameLetter(a[i], b[i])

\* the kind the specification gives an identifier
ReservedKind(text) ==
    IF \E k \in KeywordKinds : SameIgnoringCase(text, k[1])
    THEN LET kw == (CHOOSE k \in KeywordKinds : SameIgnoringCase(text, k[1]))[2]
         IN IF kw = "IS" THEN "BE" ELSE IF kw = "AN" THEN "A" ELSE kw
    ELSE "SYMBOL"

IdentifierTokens ==
    SelectSeq(yielded, LAMBDA t : t.type \notin {"NUMBER", "EQ", "COLON", "LPAREN",
                                                 "RPAREN", "DOT"})

Types(toks) == [i \in 1..Len(toks) |-> toks[i].type]

\* C6: the identifiers scanned so far have one token each, in order; the token's
\* kind is the reserved keyword's kind when the text is a keyword in any case
\* (IS as BE, AN as A) and SYMBOL otherwise, its value is the text as written; no
\* token holds a blank, a tab, a comma or a newline; and "Let x be an integer."
\* gives LET, SYMBOL(x), BE, A, SYMBOL(integer), DOT.
C6_IdentifierTokens ==
    LET starts == {i \in 1..pos : StartsIdentifier(code, i)}
        ids == IdentifierTokens
    IN /\ Len(ids) = Cardinality(starts)
       /\ \A k \in 1..Len(ids) :
             LET text == IdentifierAt(code, Nth(starts, k))
             IN /\ ids[k].value = PyStr(text)
                /\ ids[k].type = ReservedKind(text)
       /\ \A k \in 1..Len(yielded) :
             yielded[k].value.py = "str" =>
                 \A c \in Range(yielded[k].value.s) : ~IsWhitespace(c) /\ c # ","
       /\ (code = Test_short_sentence /\ pc = "exhausted") =>
             /\ Types(yielded) = <<"LET", "SYMBOL", "BE", "A", "SYMBOL", "DOT">>
             /\ yielded[2].value = PyStr(<<"x">>)
             /\ yielded[5].value = PyStr(<<"i","n","t","e","g","e","r">>)

\* a text tokenized to its end with a keyword written in mixed case among its
\* identifiers: "Is" as BE or "aN" as A, after another token
C6_Witness ==
    /\ pc = "exhausted"
    /\ Len(yielded) = 2
    /\ \/ yielded[2].type = "BE" /\ yielded[2].value = PyStr(<<"I","s">>)
       \/ yielded[2].type = "A" /\ yielded[2].value = PyStr(<<"a","N">>)

\* the maximal runs of characters between whitespace
ChunkStarts(s) == {i \in 1..Len(s) : ~IsWhitespace(s[i]) /\ (i = 1 \/ IsWhitespace(s[i - 1]))}

ChunkAt(s, i) ==
    SubSeq(s, i, CHOOSE e \in i..Len(s) :
                    /\ \A k \in i..e : ~IsWhitespace(s[k])
                    /\ e = Len(s) \/ IsWhitespace(s[e + 1]))

\* digits, then at most one "." and further digits
IsLiteral(w) ==
    /\ w # <<>>
    /\ IsDigit(w[1])
    /\ \A i \in 1..Len(w) : IsDigit(w[i]) \/ w[i] = "."
    /\ Cardinality({i \in 1..Len(w) : w[i] = "."}) <= 1

IsLiteralList(s) == \A i \in ChunkStarts(s) : IsLiteral(ChunkAt(s, i))

\* the token value v is the number the literal w denotes, of the kind the
\* literal asks for
Denotes(v, w) ==
    IF \E i \in 1..Len(w) : w[i] = "."
    THEN LET dot == CHOOSE i \in 1..Len(w) : w[i] = "."
             whole == DecimalValue(SubSeq(w, 1, dot - 1))
             frac == SubSeq(w, dot + 1, Len(w))
         IN /\ v.py = "float"
            /\ v.num * Pow10(Len(frac)) =
                   (whole * Pow10(Len(frac)) + DecimalValue(frac)) * Pow10(v.exp)
    ELSE v.py = "int" /\ v.exp = 0 /\ v.num = DecimalValue(w)

\* C7: a text of numeric literals separated by whitespace gives one NUMBER token
\* per literal, in order, an integer for a literal without "." and a fraction
\* for one with it; "0 1 697 24.837" gives 0, 1, 697 and 24.837.
C7_NumberTokens ==
    /\ (pc = "exhausted" /\ IsLiteralList(code)) =>
          LET starts == ChunkStarts(code)
          IN /\ Len(yielded) = Cardinality(starts)
             /\ \A k \in 1..Len(yielded) :
                   /\ yielded[k].type = "NUMBER"
                   /\ Denotes(yielded[k].value, ChunkAt(code, Nth(starts, k)))
    /\ IsLiteralList(code) => pc # "raised"
    /\ (pc = "exhausted" /\ code = Test_numbers) =>
          /\ Len(yielded) = 4
          /\ yielded[1].value = [py |-> "int", num |-> 0, exp |-> 0]
          /\ yielded[2].value = [py |-> "int", num |-> 1, exp |-> 0]
          /\ yielded[3].value = [py |-> "int", num |-> 697, exp |-> 0]
          /\ yielded[4].value = [py |-> "float", num |-> 24837, exp |-> 3]

\* a text of several literals, with and without a fraction, tokenized to its end
C7_Witness ==
    /\ pc = "exhausted"
    /\ IsLiteralList(code)
    /\ \E k \in 1..Len(yielded) : yielded[k].value.py = "float" /\ yielded[k].value.exp > 0
    /\ \E k \in 1..Len(yielded) : yielded[k].value.py = "int" /\ yielded[k].value.num > 0

NewlinesBefore(s, i) == Cardinality({j \in 1..(i - 1) : s[j] = "\n"})

\* the number of characters of the line of index i that come before it
OffsetInLine(s, i) ==
    Cardinality({j \in 1..(i - 1) : \A k \in j..(i - 1) : s[k] # "\n"})

FirstStray(s) == CHOOSE i \in 1..Len(s) : IsStray(s, i) /\ \A j \in 1..(i - 1) : ~IsStray(s, j)

HasStray(s) == \E i \in 1..Len(s) : IsStray(s, i)

\* tokenize is over: the generator is exhausted or has raised
TokenizeOver == pc \in {"exhausted", "raised"}

\* C8 as stated: the error carries the line and the column of the first character
\* that matches no pattern, both counted from 1.
C8_ColumnFromOne ==
    TokenizeOver =>
        IF HasStray(code)
        THEN LET i == FirstStray(code)
             IN /\ pc = "raised"
                /\ raised.text = <<code[i]>>
                /\ raised.line = NewlinesBefore(code, i) + 1
                /\ raised.column = OffsetInLine(code, i) + 1
        ELSE pc = "exhausted"

\* C8 as the code has it: tokenize fails at the first character that matches no
\* pattern; the error carries that character, its line counted from 1 and its
\* column counted from 0 (the first character of a line is column 0, and the
\* count starts again after every newline).
C8_ColumnFromZero ==
    TokenizeOver =>
        IF HasStray(code)
        THEN LET i == FirstStray(code)
             IN /\ pc = "raised"
                /\ raised.text = <<code[i]>>
                /\ raised.line = NewlinesBefore(code, i) + 1
                /\ raised.column = OffsetInLine(code, i)
        ELSE pc = "exhausted"

\* an error on the second line, not at its start, with tokens yielded before it
C8_Witness ==
    /\ pc = "raised"
    /\ raised.line = 2
    /\ raised.column = 1
    /\ yielded # <<>>

-----------------------------------------------------------------------------
(* The parser, checked under SpecParse *)

Parsing == pc \in {"match_proof", "match_clauses"}
ParseOver == pc \in {"returned", "raised"}

\* C10: parse terminates.  A call of match_clause raises SyntaxError or takes at
\* least one token off the list; no step of the parser puts a token back (the list
\* after a step is the front of the list before it); the clauses matched and the
\* tokens left never outnumber the tokens of the text, so the loop of match_proof
\* runs at most once per token; while parse is not over it has a next step, and
\* it is over with a ProofNode and an empty token list or with a SyntaxError.
C10_ParseTerminates ==
    /\ [](Parsing => Len(clauses) + Len(tokens) <= Len(yielded))
    /\ [](ParseOver \/ ENABLED NextParse)
    /\ [](pc = "returned" =>
              /\ tokens = <<>>
              /\ ast.cls = "ProofNode"
              /\ ast.items[2].items = clauses)
    /\ [](pc = "raised" => raised.exc = "SyntaxError")
    /\ [][/\ (pc = "match_clauses" /\ pc' = "match_clauses") =>
                 /\ Len(tokens') < Len(tokens)
                 /\ Len(clauses') = Len(clauses) + 1
          /\ (pc = "match_clauses" /\ pc' = "raised") => raised'.exc = "SyntaxError"
          /\ Parsing =>
                 /\ Len(tokens') <= Len(tokens)
                 /\ tokens' = SubSeq(tokens, 1, Len(tokens'))]_vars

\* parse has returned a proof after two turns of the loop of match_proof
C10_Witness ==
    /\ pc = "returned"
    /\ Len(clauses) = 2
    /\ tokens = <<>>
    /\ clauses[1].cls = "LetNode"
    /\ clauses[2].cls = "FormulaClauseNode"

-----------------------------------------------------------------------------
(* check_proof, checked under Spec *)

IsPrefix(p, s) == Len(p) <= Len(s) /\ SubSeq(s, 1, Len(p)) = p

RECURSIVE SameTree(_, _)
\* structural equality: recursive equality of the trees by node kind and literal
\* value (1 and 1.0 are the same value), the positions of the tokens left aside
SameTree(a, b) ==
    /\ a.py = b.py \/ (IsNumber(a) /\ IsNumber(b))
    /\ CASE a.py = "namedtuple" ->
               /\ a.cls = b.cls
               /\ Len(a.items) = Len(b.items)
               /\ \A i \in 1..Len(a.items) : SameTree(a.items[i], b.items[i])
         [] a.py = "list" ->
               /\ Len(a.items) = Len(b.items)
               /\ \A i \in 1..Len(a.items) : SameTree(a.items[i], b.items[i])
         [] a.py = "Token" -> a.type = b.type /\ SameTree(a.value, b.value)
         [] a.py \in {"int", "float"} -> a.num = b.num /\ a.exp = b.exp
         [] OTHER -> a = b

\* C1: a text that is a well-formed proof statement and nothing more parses to a
\* proof with no clause, and check_proof ends rejected with "the body of the
\* proof is empty"; it reaches neither the boundary check nor the clause walk.
C1_EmptyBody ==
    code \in Goals =>
        /\ pc \notin {"raised", "boundary", "walk"}
        /\ pc = "check_empty" => ast.items[2].items = <<>>
        /\ pc = "done" => outcome = error(MsgEmpty, "Error")

NonConditionalGoals == Goals \ {Goal_if_xy, Goal_if_x1}

\* the statements and the clauses that state the same formula
SameFormula ==
    {<<Goal_x_eq_y, Cl_x_eq_y>>, <<Goal_x_eq_1, Cl_x_eq_1>>, <<Goal_x_eq_1, Cl_x_eq_1_0>>,
     <<Goal_x_eq_1_spaced, Cl_x_eq_1>>, <<Goal_x_eq_1_spaced, Cl_x_eq_1_0>>,
     <<Goal_n_is_even, Cl_where>>, <<Goal_n_is_even, Cl_def_n_even>>}

\* C2: check_proof on a proof whose statement is no conditional and whose first
\* clause states another formula ends rejected with the boundary message, not
\* with a syntax error, a crash or the confirmation; so for "PROVE: x = 1. y = 1.".
C2_BoundaryMismatch ==
    \A g \in NonConditionalGoals, c \in ClauseTexts :
        (<<g, c>> \notin SameFormula /\ IsPrefix(g \o c, code) /\ pc = "done") =>
            /\ raised = NoException
            /\ outcome = error(MsgStatement, "Error")

\* C3: with a conditional statement IF H THEN C and a body that is not empty the
\* boundary check ends in one of three ways: rejected for the first statement
\* when the first clause's formula is not H, rejected for the final statement
\* when it is H and the last clause's formula is not C, and on to the clause walk
\* otherwise.
C3_ConditionalBoundary ==
    [][(pc = "boundary" /\ statement.cls = "IfNode") =>
          LET first == clauses[1].items[Len(clauses[1].items) - (IF clauses[1].cls = "FormulaClauseNode" THEN 1 ELSE 0)]
              final == clauses[Len(clauses)]
              last == final.items[Len(final.items) - (IF final.cls = "FormulaClauseNode" THEN 1 ELSE 0)]
          IN IF ~SameTree(statement.items[1], first)
             THEN pc' = "done" /\ outcome' = error(MsgHypothesis, "Error")
             ELSE IF ~SameTree(statement.items[2], last)
             THEN pc' = "done" /\ outcome' = error(MsgConsequent, "Error")
             ELSE pc' = "walk" /\ outcome' = Running]_vars

\* C4: a proof that parses, has a body, passes the boundary match and has no
\* clause failing its check ends with the confirmation printed; so does
\* "PROVE: IF x = 1 THEN x = x. x = 1. THEREFORE x = x.".
C4_Accepted ==
    /\ [](pc = "done" /\ code = Goal_if_x1 \o Cl_x_eq_1 \o Cl_therefore
              => outcome = Printed)
    /\ [][pc = "walk" =>
             \/ outcome' = Printed
             \/ /\ outcome'.status = "exit"
                /\ \E i \in 1..Len(clauses) :
                      check_clause(EmptyKnowledge, clauses[i]).outcome.status = "exit"]_vars

-----------------------------------------------------------------------------
(* check_clause and follows, checked under SpecClause *)

IsEvenCategory(node) ==
    /\ node.cls = "CompoundSymbolNode"
    /\ Len(node.items[1].items) = 1
    /\ SameIgnoringCase(node.items[1].items[1].value.s, <<"e","v","e","n">>)

\* the knowledge base binds the symbol of the term to the category even
BoundToEven(kn, term) ==
    /\ term.cls = "SymbolNode"
    /\ \E i \in 1..Len(kn.items[1].items) :
          LET e == kn.items[1].items[i]
          IN /\ \E j \in 1..Len(e.items[1].items) :
                    e.items[1].items[j] = PyStr(<<"e","v","e","n">>)
             /\ \E j \in 1..Len(e.items[2].items) :
                    SameTree(e.items[2].items[j], term)

\* C5: for a clause "By definition n is a even", follows is true exactly when n
\* is bound to the category even or is a literal even number.
C5_DefinitionOfEven ==
    (/\ pc = "done"
     /\ clause.cls = "FormulaClauseNode"
     /\ clause.items[1].py = "Token"
     /\ clause.items[1].type = "DEFINITION"
     /\ clause.items[2].cls = "IsANode"
     /\ IsEvenCategory(clause.items[2].items[2])) =>
        LET term == clause.items[2].items[1]
        IN follows(knowledge, clause.items[2], clause.items[1]) <=>
               \/ term.cls = "NumberNode" /\ is_even(term.items[1].value)
               \/ BoundToEven(knowledge, term)

\* C9: check_clause does not reject a Let clause, and the knowledge base after the
\* call holds an expression with the symbol of the clause.
C9_LetRecorded ==
    (pc = "done" /\ clause.cls = "LetNode") =>
        /\ outcome.status = "running"
        /\ \E i \in 1..Len(knowledge.items[1].items) :
              \E j \in 1..Len(knowledge.items[1].items[i].items[2].items) :
                  LET t == knowledge.items[1].items[i].items[2].items[j]
                  IN t.cls = "SymbolNode" /\ t.items[1].value = clause.items[1].value

====
